---- MODULE Spec2Model ----
(***************************************************************************)
(* Model of scrape.py: one run of the xSOL APY monitor.                    *)
(*                                                                         *)
(* Texts are sequences of one-character strings, so that trimming, case    *)
(* folding, substring search and the PCT_RE regular expression are         *)
(* computed character by character.  Parsed percentages (Python floats)    *)
(* are kept as integers in units of 1/Scale; the row pool only uses        *)
(* numerals that a binary float represents exactly (n, n.5, n.25), so the  *)
(* subtraction and comparison in main are exact in both representations.  *)
(*                                                                         *)
(* A table row of the page is what the in-page script can observe of it:   *)
(* the row's innerText and the row's descendant elements in document       *)
(* order, each with its tag and its innerText.                             *)
(*                                                                         *)
(* Browser launch and new_page are taken to succeed; page.goto, the two    *)
(* waits and page.evaluate either return or raise.                         *)
(***************************************************************************)
EXTENDS Integers, Sequences, FiniteSets, TLC

\* ------------------------------------------------------------------ bounds
MaxRows == 3
MaxText == 4

\* ------------------------------------------------------- configuration
THRESHOLD == 3
MAX_ATTEMPTS == 4
BASE_WAIT_SECONDS == 2

\* float values are held as integers counting 1/Scale
FracDigits == 2
Scale == 100

\* ------------------------------------------------------------- text helpers
IsSpace(c) == c \in {" ", "\t", "\n"}

IsDigit(c) == c \in {"0", "1", "2", "3", "4", "5", "6", "7", "8", "9"}

DigitVal(c) ==
  CASE c = "0" -> 0 [] c = "1" -> 1 [] c = "2" -> 2 [] c = "3" -> 3
    [] c = "4" -> 4 [] c = "5" -> 5 [] c = "6" -> 6 [] c = "7" -> 7
    [] c = "8" -> 8 [] c = "9" -> 9

Upper == <<"A","B","C","D","E","F","G","H","I","J","K","L","M",
           "N","O","P","Q","R","S","T","U","V","W","X","Y","Z">>
Lower == <<"a","b","c","d","e","f","g","h","i","j","k","l","m",
           "n","o","p","q","r","s","t","u","v","w","x","y","z">>

LowerChar(c) ==
  IF \E i \in 1..Len(Upper) : Upper[i] = c
  THEN Lower[CHOOSE i \in 1..Len(Upper) : Upper[i] = c]
  ELSE c

\* String.prototype.toLowerCase
ToLowerCase(t) == [i \in 1..Len(t) |-> LowerChar(t[i])]

\* String.prototype.includes
Includes(t, sub) ==
  \E i \in 1..(Len(t) - Len(sub) + 1) : SubSeq(t, i, i + Len(sub) - 1) = sub

RECURSIVE TrimLeft(_)
TrimLeft(t) ==
  IF t # <<>> /\ IsSpace(Head(t)) THEN TrimLeft(Tail(t)) ELSE t

RECURSIVE TrimRight(_)
TrimRight(t) ==
  IF t # <<>> /\ IsSpace(t[Len(t)]) THEN TrimRight(SubSeq(t, 1, Len(t) - 1)) ELSE t

\* String.prototype.trim
Trim(t) == TrimRight(TrimLeft(t))

\* ------------------------------------------------------------------ PCT_RE
\* first index at or after i that does not hold a digit
RECURSIVE DigitsEnd(_, _)
DigitsEnd(t, i) ==
  IF i <= Len(t) /\ IsDigit(t[i]) THEN DigitsEnd(t, i + 1) ELSE i

\* first index at or after i that does not hold white space
RECURSIVE SpacesEnd(_, _)
SpacesEnd(t, i) ==
  IF i <= Len(t) /\ IsSpace(t[i]) THEN SpacesEnd(t, i + 1) ELSE i

NoMatch == [ok |-> FALSE, from |-> 0, to |-> 0]

\* (-?\d+(?:\.\d+)?)\s*%  anchored at index i; from..to is group 1
MatchAt(t, i) ==
  LET s == IF i <= Len(t) /\ t[i] = "-" THEN i + 1 ELSE i
      d == DigitsEnd(t, s)
      f == IF d <= Len(t) /\ t[d] = "." /\ DigitsEnd(t, d + 1) > d + 1
           THEN DigitsEnd(t, d + 1) ELSE d
      w == SpacesEnd(t, f)
  IN  IF d = s THEN NoMatch
      ELSE IF w <= Len(t) /\ t[w] = "%"
           THEN [ok |-> TRUE, from |-> i, to |-> f - 1]
           ELSE NoMatch

PCT_RE_search_last(t) ==
  IF \E i \in 1..Len(t) : MatchAt(t, i).ok
  THEN MatchAt(t, CHOOSE i \in 1..Len(t) :
                    /\ MatchAt(t, i).ok
                    /\ \A j \in (i + 1)..Len(t) : ~MatchAt(t, j).ok)
  ELSE NoMatch

\* PCT_RE.search(t): the leftmost match, or no match
PCT_RE_search(t) ==
  IF \E i \in 1..Len(t) : MatchAt(t, i).ok
  THEN MatchAt(t, CHOOSE i \in 1..Len(t) :
                    /\ MatchAt(t, i).ok
                    /\ \A j \in 1..(i - 1) : ~MatchAt(t, j).ok)
  ELSE NoMatch

RECURSIVE NatVal(_)
NatVal(ds) ==
  IF ds = <<>> THEN 0
  ELSE 10 * NatVal(SubSeq(ds, 1, Len(ds) - 1)) + DigitVal(ds[Len(ds)])

\* the fraction digits, cut or zero-filled to FracDigits places
FracVal(ds) ==
  NatVal([i \in 1..FracDigits |-> IF i <= Len(ds) THEN ds[i] ELSE "0"])

\* float(m.group(1)) in units of 1/Scale
ToFloat(g) ==
  LET neg  == g # <<>> /\ g[1] = "-"
      body == IF neg THEN Tail(g) ELSE g
      d    == DigitsEnd(body, 1)
      int  == SubSeq(body, 1, d - 1)
      frac == IF d <= Len(body) THEN SubSeq(body, d + 1, Len(body)) ELSE <<>>
      mag  == NatVal(int) * Scale + FracVal(frac)
  IN  IF neg THEN 0 - mag ELSE mag

\* ------------------------------------------------------- the in-page script
Percent == <<"%">>
Label == <<"x", "s", "o", "l">>

\* r.querySelectorAll('td'), as the cells' innerText
Tds(r) ==
  LET cells == SelectSeq(r.elems, LAMBDA e : e.tag = "td")
  IN  [i \in 1..Len(cells) |-> cells[i].innerText]

\* Array.from(r.querySelectorAll('*')).map(el => el.innerText || '')
DescendantTexts(r) == [i \in 1..Len(r.elems) |-> r.elems[i].innerText]

\* descendantTexts.find(t => t && t.includes('%')); <<>> stands for undefined
Found(texts) ==
  IF \E i \in 1..Len(texts) : texts[i] # <<>> /\ Includes(texts[i], Percent)
  THEN texts[CHOOSE i \in 1..Len(texts) :
               /\ texts[i] # <<>> /\ Includes(texts[i], Percent)
               /\ \A j \in 1..(i - 1) :
                    ~(texts[j] # <<>> /\ Includes(texts[j], Percent))]
  ELSE <<>>

ApyText_cellOnly(r) ==
  LET tds == Tds(r)
  IN  IF Len(tds) >= 4 THEN Trim(tds[4]) ELSE <<>>

\* the apyText of one kept row
ApyText(r) ==
  LET tds   == Tds(r)
      first == IF Len(tds) >= 4 THEN Trim(tds[4]) ELSE <<>>
      found == Found(DescendantTexts(r))
  IN  IF first = <<>> \/ ~Includes(first, Percent)
      THEN (IF found # <<>> THEN Trim(found) ELSE first)
      ELSE first

RowText(r) == Trim(r.innerText)

Keeps_caseSensitive(r) == Includes(RowText(r), Label)

\* rowText.toLowerCase().includes('xsol')
Keeps(r) == Includes(ToLowerCase(RowText(r)), Label)

\* the value returned by page.evaluate for the document d
RECURSIVE Extract(_)
Extract(d) ==
  IF d = <<>> THEN <<>>
  ELSE LET r == Head(d)
       IN  (IF Keeps(r)
            THEN <<[rowText |-> RowText(r), apyText |-> ApyText(r)]>>
            ELSE <<>>) \o Extract(Tail(d))
\* ------------------------------------------------- the Python side of a try
Unparsed(item) ==
  [rowText |-> item.rowText, apyText |-> item.apyText, parsed |-> "None"]

\* m = PCT_RE.search(apy_text) or PCT_RE.search(row_text), as group 1 of m
MatchedGroup_rowFirst(item) ==
  LET ma == PCT_RE_search(item.apyText)
      mr == PCT_RE_search(item.rowText)
  IN  IF mr.ok THEN [ok |-> TRUE, g |-> SubSeq(item.rowText, mr.from, mr.to)]
      ELSE IF ma.ok THEN [ok |-> TRUE, g |-> SubSeq(item.apyText, ma.from, ma.to)]
      ELSE [ok |-> FALSE, g |-> <<>>]

MatchedGroup(item) ==
  LET ma == PCT_RE_search(item.apyText)
      mr == PCT_RE_search(item.rowText)
  IN  IF ma.ok THEN [ok |-> TRUE, g |-> SubSeq(item.apyText, ma.from, ma.to)]
      ELSE IF mr.ok THEN [ok |-> TRUE, g |-> SubSeq(item.rowText, mr.from, mr.to)]
      ELSE [ok |-> FALSE, g |-> <<>>]

\* the for loop over raw: the lists apys and debug it builds
RECURSIVE ParseRows(_)
ParseRows(items) ==
  IF items = <<>> THEN [apys |-> <<>>, debug |-> <<>>]
  ELSE LET m    == MatchedGroup(Head(items))
           rest == ParseRows(Tail(items))
       IN  IF m.ok
           THEN [apys |-> <<ToFloat(m.g)>> \o rest.apys, debug |-> rest.debug]
           ELSE [apys |-> rest.apys, debug |-> <<Unparsed(Head(items))>> \o rest.debug]

\* ------------------------------------------------------------ the page pool
Td(t) == [tag |-> "td", innerText |-> t]
Span(t) == [tag |-> "span", innerText |-> t]

TAB == "\t"

\* fixed-column row, APY in the 4th cell (with stray blanks): 10%; the 2nd
\* cell holds another percentage, so the row text starts with a different one
RowCell ==
  [innerText |-> <<"x","S","O","L",TAB,"2","%",TAB,"b",TAB,"1","0","%">>,
   elems |-> <<Td(<<"x","S","O","L">>), Td(<<"2","%">>), Td(<<"b">>),
               Td(<<" ","1","0","%"," ">>)>>]

\* 4th cell "n/a", the APY in a badge nested in the 2nd cell: 12.5%
RowBadge ==
  [innerText |-> <<"x","S","O","L",TAB,"1","2",".","5","%",TAB,"b",TAB,"n","/","a">>,
   elems |-> <<Td(<<"x","S","O","L">>), Td(<<"1","2",".","5","%">>),
               Span(<<"1","2",".","5","%">>), Td(<<"b">>), Td(<<"n","/","a">>)>>]

\* 4th cell holds a bare percent sign, the number sits in the 3rd cell: 7 %
RowLoose ==
  [innerText |-> <<" ","X","S","O","L",TAB,"a",TAB,"7"," ","%",TAB,"%"," ","u","p">>,
   elems |-> <<Td(<<"X","S","O","L">>), Td(<<"a">>), Td(<<"7"," ","%">>),
               Td(<<"%"," ","u","p">>)>>]

\* 4th cell "n/a" and no percent sign anywhere
RowNoApy ==
  [innerText |-> <<"x","S","O","L",TAB,"a",TAB,"b",TAB,"n","/","a">>,
   elems |-> <<Td(<<"x","S","O","L">>), Td(<<"a">>), Td(<<"b">>),
               Td(<<"n","/","a">>)>>]

\* fewer than 4 cells and no percent sign
RowShort ==
  [innerText |-> <<"x","s","o","l",TAB,"a">>,
   elems |-> <<Td(<<"x","s","o","l">>), Td(<<"a">>)>>]

\* another asset: the label is absent
RowOther ==
  [innerText |-> <<"S","O","L",TAB,"a",TAB,"b",TAB,"9","%">>,
   elems |-> <<Td(<<"S","O","L">>), Td(<<"a">>), Td(<<"b">>), Td(<<"9","%">>)>>]

RowPool == {RowCell, RowBadge, RowLoose, RowNoApy, RowShort, RowOther}

\* the documents the page may show when the script runs: up to MaxRows
\* distinct rows of the pool, in any order
Docs ==
  UNION {{d \in [1..n -> RowPool] : \A i, j \in 1..n : d[i] = d[j] => i = j} :
         n \in 0..MaxRows}

\* Extract and ParseRows tabulated once over the pool (f @@ <<>> is f, held
\* as an explicit table)
ExtractOf == [d \in Docs |-> Extract(d)] @@ <<>>

ParseOf == [r \in {ExtractOf[d] : d \in Docs} |-> ParseRows(r)] @@ <<>>
\* --------------------------------------------------------------- the state
VARIABLES
  pc,          \* position of the run
  session,     \* the async_playwright() context: "none", "open", "closed"
  browser,     \* the launched browser: "none", "open", "closed"
  attempt,     \* scrape_xsol_apys: attempt
  last_debug,  \* scrape_xsol_apys: last_debug
  doc,         \* the document the latest page.evaluate ran against
  raw,         \* scrape_xsol_apys: raw
  apys,        \* scrape_xsol_apys: apys
  debug,       \* scrape_xsol_apys: debug
  returned,    \* how scrape_xsol_apys returned: "no", "success", "exhausted"
  main_apys,   \* main: apys
  main_raw,    \* main: raw
  decision,    \* main: apy1, apy2, diff once computed
  diag,        \* the rows printed by the diagnostic listing
  sent,        \* the messages handed to send_telegram_message
  transport,   \* what the HTTP exchange of send_telegram_message did
  delivered,   \* what send_telegram_message returned: "none", "json", "None"
  error,       \* the exception that left main, "none" if none
  outcome,     \* "running", "insufficient", "no_alert", "alert_sent", "fatal"
  exitCode,    \* the process exit status, -1 while running
  ops          \* the browser and notifier operations issued so far, in order

vars == <<pc, session, browser, attempt, last_debug, doc, raw, apys, debug,
          returned, main_apys, main_raw, decision, diag, sent, transport,
          delivered, error, outcome, exitCode, ops>>

scrapeVars == <<attempt, last_debug, doc, raw, apys, debug>>
mainVars == <<main_apys, main_raw, decision, diag, sent, transport, delivered>>

Op(name, k, ms) == [op |-> name, k |-> k, ms |-> ms]

NoDecision == [formed |-> FALSE, first |-> 0, second |-> 0, diff |-> 0]

Init ==
  /\ pc = "start"
  /\ session = "none"
  /\ browser = "none"
  /\ attempt = 0
  /\ last_debug = <<>>
  /\ doc = <<>>
  /\ raw = <<>>
  /\ apys = <<>>
  /\ debug = <<>>
  /\ returned = "no"
  /\ main_apys = <<>>
  /\ main_raw = <<>>
  /\ decision = NoDecision
  /\ diag = <<>>
  /\ sent = <<>>
  /\ transport = "none"
  /\ delivered = "none"
  /\ error = "none"
  /\ outcome = "running"
  /\ exitCode = -1
  /\ ops = <<>>

\* ------------------------------------------------------- scrape_xsol_apys
StopDriver_leak(b) == b

\* leaving "async with async_playwright()" stops the driver, which takes a
\* still running browser down with it
StopDriver(b) == IF b = "open" THEN "closed" ELSE b

Raise_exitZero(e, issued) ==
  /\ session' = "closed"
  /\ browser' = StopDriver(browser)
  /\ ops' = ops \o issued \o <<Op("stop", attempt, 0)>>
  /\ error' = e
  /\ outcome' = "fatal"
  /\ exitCode' = 0
  /\ pc' = "done"
  /\ UNCHANGED <<scrapeVars, returned, mainVars>>

\* an exception raised inside the async with block: the block is left, the
\* exception passes through main and asyncio.run
Raise(e, issued) ==
  /\ session' = "closed"
  /\ browser' = StopDriver(browser)
  /\ ops' = ops \o issued \o <<Op("stop", attempt, 0)>>
  /\ error' = e
  /\ outcome' = "fatal"
  /\ exitCode' = 1
  /\ pc' = "done"
  /\ UNCHANGED <<scrapeVars, returned, mainVars>>

Launch ==
  /\ pc = "start"
  /\ session' = "open"
  /\ browser' = "open"
  /\ ops' = Append(ops, Op("launch", 0, 0))
  /\ pc' = "goto"
  /\ UNCHANGED <<scrapeVars, returned, mainVars, error, outcome, exitCode>>

GotoOk ==
  /\ pc = "goto"
  /\ ops' = Append(ops, Op("goto", 0, 60000))
  /\ attempt' = 0
  /\ last_debug' = <<>>
  /\ pc' = "loop"
  /\ UNCHANGED <<session, browser, doc, raw, apys, debug, returned, mainVars,
                 error, outcome, exitCode>>

GotoFail_swallowed ==
  /\ pc = "goto"
  /\ ops' = Append(ops, Op("goto", 0, 60000))
  /\ attempt' = 0
  /\ last_debug' = <<>>
  /\ error' = "NavigationError"
  /\ pc' = "loop"
  /\ UNCHANGED <<session, browser, doc, raw, apys, debug, returned, mainVars,
                 outcome, exitCode>>

GotoFail ==
  /\ pc = "goto"
  /\ Raise("NavigationError", <<Op("goto", 0, 60000)>>)

LoopTest ==
  /\ pc = "loop"
  /\ pc' = IF attempt < MAX_ATTEMPTS THEN "idle" ELSE "exhausted"
  /\ UNCHANGED <<session, browser, scrapeVars, returned, mainVars, error,
                 outcome, exitCode, ops>>

WaitNetworkIdleOk ==
  /\ pc = "idle"
  /\ ops' = Append(ops, Op("idle", attempt, 0))
  /\ pc' = "wait"
  /\ UNCHANGED <<session, browser, scrapeVars, returned, mainVars, error,
                 outcome, exitCode>>

WaitNetworkIdleFail ==
  /\ pc = "idle"
  /\ Raise("TimeoutError", <<Op("idle", attempt, 0)>>)

WaitMs_doubling(k) == BASE_WAIT_SECONDS * 1000 * (2 ^ k)

\* int(BASE_WAIT_SECONDS * 1000 * (1 + attempt))
WaitMs(k) == BASE_WAIT_SECONDS * 1000 * (1 + k)

WaitTimeoutOk ==
  /\ pc = "wait"
  /\ ops' = Append(ops, Op("wait", attempt, WaitMs(attempt)))
  /\ pc' = "evaluate"
  /\ UNCHANGED <<session, browser, scrapeVars, returned, mainVars, error,
                 outcome, exitCode>>

WaitTimeoutFail ==
  /\ pc = "wait"
  /\ Raise("TargetClosedError", <<Op("wait", attempt, WaitMs(attempt))>>)

EvaluateOk ==
  /\ pc = "evaluate"
  /\ \E d \in Docs :
       /\ doc' = d
       /\ raw' = ExtractOf[d]
  /\ ops' = Append(ops, Op("evaluate", attempt, 0))
  /\ pc' = "parse"
  /\ UNCHANGED <<session, browser, attempt, last_debug, apys, debug, returned,
                 mainVars, error, outcome, exitCode>>

EvaluateFail ==
  /\ pc = "evaluate"
  /\ Raise("EvaluateError", <<Op("evaluate", attempt, 0)>>)

Parse ==
  /\ pc = "parse"
  /\ LET parsed == IF raw \in DOMAIN ParseOf THEN ParseOf[raw] ELSE ParseRows(raw)
     IN  /\ apys' = parsed.apys
         /\ debug' = parsed.debug
  /\ last_debug' = debug'
  /\ pc' = "check"
  /\ UNCHANGED <<session, browser, attempt, doc, raw, returned, mainVars,
                 error, outcome, exitCode, ops>>

Enough_three(a) == Len(a) >= 3

Enough_one(a) == Len(a) >= 1

\* len(apys) >= 2
Enough(a) == Len(a) >= 2

Return_noClose(kind, values, rows) ==
  /\ browser' = StopDriver(browser)
  /\ session' = "closed"
  /\ ops' = ops \o <<Op("stop", attempt, 0)>>
  /\ returned' = kind
  /\ main_apys' = values
  /\ main_raw' = rows
  /\ pc' = "main_check"
  /\ UNCHANGED <<scrapeVars, decision, diag, sent, transport, delivered, error,
                 outcome, exitCode>>

\* browser.close(), return, and the exit of the async with block
Return(kind, values, rows) ==
  /\ browser' = "closed"
  /\ session' = "closed"
  /\ ops' = ops \o <<Op("close", attempt, 0), Op("stop", attempt, 0)>>
  /\ returned' = kind
  /\ main_apys' = values
  /\ main_raw' = rows
  /\ pc' = "main_check"
  /\ UNCHANGED <<scrapeVars, decision, diag, sent, transport, delivered, error,
                 outcome, exitCode>>

Success ==
  /\ pc = "check"
  /\ Enough(apys)
  /\ Return("success", apys, raw)

Retry ==
  /\ pc = "check"
  /\ ~Enough(apys)
  /\ attempt' = attempt + 1
  /\ pc' = "loop"
  /\ UNCHANGED <<session, browser, last_debug, doc, raw, apys, debug, returned,
                 mainVars, error, outcome, exitCode, ops>>

ExhaustedValues_last(a) == a

\* the list returned when out of attempts
ExhaustedValues(a) == <<>>

Exhausted_unparsedRows ==
  /\ pc = "exhausted"
  /\ Return("exhausted", ExhaustedValues(apys),
            [i \in 1..Len(last_debug) |->
               [rowText |-> last_debug[i].rowText, apyText |-> last_debug[i].apyText]])

Exhausted ==
  /\ pc = "exhausted"
  /\ Return("exhausted", ExhaustedValues(apys), raw)
\* -------------------------------------------------------------------- main
\* an exception raised in main after scrape_xsol_apys has returned
RaiseInMain(e) ==
  /\ error' = e
  /\ outcome' = "fatal"
  /\ exitCode' = 1
  /\ pc' = "done"

\* "not apys"
NotApys(a) == Len(a) = 0

\* the enumerate(raw) loop of the diagnostic listing
Listing(rows) ==
  [i \in 1..Len(rows) |->
     [index |-> i - 1, rowText |-> rows[i].rowText, apyText |-> rows[i].apyText]]

AfterListing_fallsThrough == "compare"

\* the return that ends the diagnostic branch
AfterListing == "done"

MainCheck ==
  /\ pc = "main_check"
  /\ IF NotApys(main_apys)
     THEN /\ diag' = Listing(main_raw)
          /\ outcome' = IF AfterListing = "done" THEN "insufficient" ELSE outcome
          /\ exitCode' = IF AfterListing = "done" THEN 0 ELSE exitCode
          /\ pc' = AfterListing
     ELSE /\ pc' = "compare"
          /\ UNCHANGED <<diag, outcome, exitCode>>
  /\ UNCHANGED <<session, browser, scrapeVars, returned, main_apys, main_raw,
                 decision, sent, transport, delivered, error, ops>>

Abs(x) == IF x < 0 THEN 0 - x ELSE x

ShouldAlert_strict(d) == d > THRESHOLD * Scale

ShouldAlert_always(d) == TRUE

\* diff >= THRESHOLD
ShouldAlert(d) == d >= THRESHOLD * Scale

\* apy1, apy2 = apys[0], apys[1]; diff = abs(apy1 - apy2)
Compare ==
  /\ pc = "compare"
  /\ IF Len(main_apys) < 2
     THEN /\ RaiseInMain("IndexError")
          /\ UNCHANGED decision
     ELSE LET d == Abs(main_apys[1] - main_apys[2])
          IN  /\ decision' = [formed |-> TRUE, first |-> main_apys[1],
                              second |-> main_apys[2], diff |-> d]
              /\ IF ShouldAlert(d)
                 THEN /\ pc' = "send"
                      /\ UNCHANGED <<error, outcome, exitCode>>
                 ELSE /\ pc' = "done"
                      /\ outcome' = "no_alert"
                      /\ exitCode' = 0
                      /\ UNCHANGED error
  /\ UNCHANGED <<session, browser, scrapeVars, returned, main_apys, main_raw,
                 diag, sent, transport, delivered, ops>>

\* what requests.post / raise_for_status / r.json() can do
Transport == {"ok", "ConnectionError", "Timeout", "HTTPError", "JSONDecodeError"}

Caught_transportOnly(t) == t \in {"ConnectionError", "Timeout"}

\* "except Exception" of send_telegram_message
Caught(t) == t \in {"ConnectionError", "Timeout", "HTTPError", "JSONDecodeError"}

Message ==
  [diff |-> decision.diff, first |-> decision.first, second |-> decision.second,
   threshold |-> THRESHOLD]

SendTelegram ==
  /\ pc = "send"
  /\ ops' = Append(ops, Op("send", 0, 10000))
  /\ sent' = Append(sent, Message)
  /\ \E t \in Transport :
       /\ transport' = t
       /\ IF t = "ok"
          THEN /\ delivered' = "json"
               /\ pc' = "sent"
               /\ UNCHANGED <<error, outcome, exitCode>>
          ELSE IF Caught(t)
          THEN /\ delivered' = "None"
               /\ pc' = "sent"
               /\ UNCHANGED <<error, outcome, exitCode>>
          ELSE /\ RaiseInMain(t)
               /\ UNCHANGED delivered
  /\ UNCHANGED <<session, browser, scrapeVars, returned, main_apys, main_raw,
                 decision, diag>>

\* print("Alert sent to Telegram.") and the end of main
AlertSent ==
  /\ pc = "sent"
  /\ outcome' = "alert_sent"
  /\ exitCode' = 0
  /\ pc' = "done"
  /\ UNCHANGED <<session, browser, scrapeVars, returned, mainVars, error, ops>>

Next ==
  \/ Launch
  \/ GotoOk
  \/ GotoFail
  \/ LoopTest
  \/ WaitNetworkIdleOk
  \/ WaitNetworkIdleFail
  \/ WaitTimeoutOk
  \/ WaitTimeoutFail
  \/ EvaluateOk
  \/ EvaluateFail
  \/ Parse
  \/ Success
  \/ Retry
  \/ Exhausted
  \/ MainCheck
  \/ Compare
  \/ SendTelegram
  \/ AlertSent

Spec == Init /\ [][Next]_vars

\* ------------------------------------------------- the parser on free text
\* the characters a cell text is drawn from
PctChars == {"-", "4", "8", ".", "%", " "}

Texts == UNION {[1..n -> PctChars] : n \in 0..MaxText}

\* a labelled row of two cells whose second cell shows the text t
TextRow(t) ==
  [innerText |-> <<"x", "s", "o", "l", TAB>> \o t,
   elems |-> <<Td(<<"x", "s", "o", "l">>), Td(t)>>]

\* the run right after the first page.evaluate returned, the page showing
\* one labelled row with an arbitrary cell text
InitPct ==
  /\ pc = "parse"
  /\ session = "open"
  /\ browser = "open"
  /\ attempt = 0
  /\ last_debug = <<>>
  /\ \E t \in Texts :
       /\ doc = <<TextRow(t)>>
       /\ raw = Extract(<<TextRow(t)>>)
  /\ apys = <<>>
  /\ debug = <<>>
  /\ returned = "no"
  /\ main_apys = <<>>
  /\ main_raw = <<>>
  /\ decision = NoDecision
  /\ diag = <<>>
  /\ sent = <<>>
  /\ transport = "none"
  /\ delivered = "none"
  /\ error = "none"
  /\ outcome = "running"
  /\ exitCode = -1
  /\ ops = <<Op("launch", 0, 0), Op("goto", 0, 60000), Op("idle", 0, 0),
             Op("wait", 0, WaitMs(0)), Op("evaluate", 0, 0)>>

NextPct == Parse

SpecPct == InitPct /\ [][NextPct]_vars

\* the run is one sequential coroutine driven to completion by asyncio.run:
\* whenever a step is enabled, a step is eventually taken
LiveSpec == Spec /\ WF_vars(Next)

\* ------------------------------------------------------------ type invariant
TypeOK ==
  /\ pc \in {"start", "goto", "loop", "idle", "wait", "evaluate", "parse",
              "check", "exhausted", "main_check", "compare", "send", "sent",
              "done"}
  /\ session \in {"none", "open", "closed"}
  /\ browser \in {"none", "open", "closed"}
  /\ attempt \in 0..MAX_ATTEMPTS
  /\ Len(doc) <= MaxRows
  /\ returned \in {"no", "success", "exhausted"}
  /\ transport \in Transport \cup {"none"}
  /\ delivered \in {"none", "json", "None"}
  /\ outcome \in {"running", "insufficient", "no_alert", "alert_sent", "fatal"}
  /\ exitCode \in {-1, 0, 1}
\* ------------------------------------------------------------------ history
CountOp(name) == Cardinality({i \in 1..Len(ops) : ops[i].op = name})

\* the page operations of the retry loop, in the order they were issued
PageOps == SelectSeq(ops, LAMBDA o : o.op \in {"idle", "wait", "evaluate"})

NonFatal == {"insufficient", "no_alert", "alert_sent"}

C2_SessionClosedOnEveryExit ==
  (pc = "done" \/ returned # "no") =>
    /\ session = "closed"
    /\ browser = "closed"

C2_Witness ==
  /\ pc = "done"
  /\ error = "NavigationError"
  /\ browser = "closed"
  /\ CountOp("close") = 0

\* ---------------------------------------------------------------------- C3
\* C3: the loop only goes on while the latest attempt parsed fewer than 2
\* values; the first attempt that parses 2 or more returns that attempt's
\* values and raw rows, and after its extraction no further network-idle
\* wait, timed wait or extraction is issued, even when attempts remain.
C3_FirstSuccessEndsLoop ==
  /\ pc \in {"loop", "idle", "wait", "evaluate", "exhausted"} => Len(apys) < 2
  /\ returned = "success" =>
       /\ Len(apys) >= 2
       /\ main_apys = apys
       /\ main_raw = raw
       /\ raw = Extract(doc)
       /\ CountOp("idle") = attempt + 1
       /\ CountOp("wait") = attempt + 1
       /\ CountOp("evaluate") = attempt + 1
       /\ PageOps[Len(PageOps)] = Op("evaluate", attempt, 0)

C3_Witness ==
  /\ returned = "success"
  /\ attempt = 1
  /\ Len(main_apys) = 2
  /\ CountOp("evaluate") = 2

\* ---------------------------------------------------------------------- C4
\* C4: a run that ends without a navigation failure ends in a non-fatal
\* outcome: no failure of a step after page.goto aborts the run.
C4_OnlyNavigationAborts ==
  (pc = "done" /\ error # "NavigationError") =>
    /\ outcome \in NonFatal
    /\ exitCode = 0

\* ---------------------------------------------------------------------- C5
\* C5: page.goto is issued at most once, before every wait, extraction and
\* notification, and exactly once in any run that got past it; a run whose
\* navigation failed ends with that error, no extraction and no
\* notification.
C5_NavigateOnce ==
  /\ CountOp("goto") <= 1
  /\ pc \notin {"start", "goto"} => CountOp("goto") = 1
  /\ \A i \in 1..Len(ops) :
       ops[i].op \in {"idle", "wait", "evaluate", "send"} =>
         \E j \in 1..(i - 1) : ops[j].op = "goto"
  /\ error = "NavigationError" =>
       /\ pc = "done"
       /\ outcome = "fatal"
       /\ exitCode = 1
       /\ returned = "no"
       /\ CountOp("idle") = 0
       /\ CountOp("evaluate") = 0
       /\ CountOp("send") = 0

C5_Witness ==
  /\ error = "NavigationError"
  /\ CountOp("goto") = 1
  /\ CountOp("evaluate") = 0
\* ---------------------------------------------------------------------- C6
\* C6: once scrape_xsol_apys has returned fewer than 2 values, no alert
\* decision is formed and send_telegram_message is never invoked; the run
\* prints one diagnostic entry per returned raw row, carrying that row's
\* rowText and apyText in order, and ends normally.
C6_InsufficientData ==
  (returned # "no" /\ Len(main_apys) < 2) =>
    /\ ~decision.formed
    /\ CountOp("send") = 0
    /\ sent = <<>>
    /\ error = "none"
    /\ pc \in {"main_check", "done"}
    /\ pc = "done" =>
         /\ outcome = "insufficient"
         /\ exitCode = 0
         /\ Len(diag) = Len(main_raw)
         /\ \A i \in 1..Len(main_raw) :
              /\ diag[i].index = i - 1
              /\ diag[i].rowText = main_raw[i].rowText
              /\ diag[i].apyText = main_raw[i].apyText

C6_Witness ==
  /\ pc = "done"
  /\ outcome = "insufficient"
  /\ Len(apys) = 1
  /\ Len(diag) = 3

\* ---------------------------------------------------------------------- C7
\* C7: the alert decision is formed from exactly the first two returned
\* values in document order; its difference is their absolute difference
\* and is never negative; a finished run has invoked the notifier if and
\* only if that difference is at least THRESHOLD, the boundary included.
C7_DivergenceDecision ==
  /\ decision.formed =>
       /\ Len(main_apys) >= 2
       /\ decision.first = main_apys[1]
       /\ decision.second = main_apys[2]
       /\ decision.diff >= 0
       /\ decision.diff \in {decision.first - decision.second,
                              decision.second - decision.first}
  /\ (pc = "done" /\ returned # "no" /\ Len(main_apys) >= 2) =>
       /\ decision.formed
       /\ CountOp("send") = 1 <=> decision.diff >= THRESHOLD * Scale
       /\ CountOp("send") = 0 <=> decision.diff < THRESHOLD * Scale
       /\ CountOp("send") = 0 <=> outcome = "no_alert"

C7_Witness ==
  /\ pc = "done"
  /\ Len(main_apys) = 3
  /\ main_apys[1] < main_apys[2]
  /\ main_apys[3] > main_apys[2]
  /\ decision.diff = THRESHOLD * Scale
  /\ CountOp("send") = 1

\* ---------------------------------------------------------------------- C8
\* C8: whatever the HTTP exchange does, send_telegram_message returns to
\* main: a failed exchange yields None and a successful one the decoded
\* reply, no exception leaves the call, and the run completes normally.
C8_NotifierNeverRaises ==
  transport # "none" =>
    /\ error = "none"
    /\ outcome # "fatal"
    /\ pc \in {"sent", "done"}
    /\ delivered = "json" <=> transport = "ok"
    /\ delivered = "None" <=> transport # "ok"
    /\ pc = "done" => outcome = "alert_sent" /\ exitCode = 0

C8_Witness ==
  /\ pc = "done"
  /\ transport = "HTTPError"
  /\ delivered = "None"
  /\ outcome = "alert_sent"
  /\ exitCode = 0

\* ---------------------------------------------------------------------- C9
\* C9: the page operations of the loop come in rounds of network-idle wait,
\* timed wait, extraction, the k-th round (k = 0, 1, ...) carrying attempt
\* index k and a timed wait of BASE_WAIT_SECONDS * (1 + k) seconds; at most
\* MAX_ATTEMPTS extractions are issued, and exactly MAX_ATTEMPTS when the
\* loop ends by exhaustion.
C9_AttemptOrder ==
  LET kinds == <<"idle", "wait", "evaluate">>
  IN  /\ \A i \in 1..Len(PageOps) :
           /\ PageOps[i].op = kinds[((i - 1) % 3) + 1]
           /\ PageOps[i].k = (i - 1) \div 3
           /\ PageOps[i].op = "wait" =>
                PageOps[i].ms = BASE_WAIT_SECONDS * 1000 * (1 + PageOps[i].k)
      /\ \A i, j \in 1..Len(PageOps) :
           (PageOps[i].op = "wait" /\ PageOps[j].op = "wait"
              /\ PageOps[j].k = PageOps[i].k + 1) =>
             PageOps[j].ms - PageOps[i].ms = BASE_WAIT_SECONDS * 1000
      /\ CountOp("evaluate") <= MAX_ATTEMPTS
      /\ attempt <= MAX_ATTEMPTS
      /\ returned = "exhausted" =>
           /\ CountOp("idle") = MAX_ATTEMPTS
           /\ CountOp("wait") = MAX_ATTEMPTS
           /\ CountOp("evaluate") = MAX_ATTEMPTS

C9_Witness ==
  /\ returned = "exhausted"
  /\ Len(PageOps) = 3 * MAX_ATTEMPTS
  /\ PageOps[Len(PageOps) - 1] =
       Op("wait", MAX_ATTEMPTS - 1, BASE_WAIT_SECONDS * 1000 * MAX_ATTEMPTS)

\* --------------------------------------------------------------------- C10
\* the rows of the document the script keeps
KeptRows(d) == SelectSeq(d, Keeps)

CellWithPercent(r) ==
  Len(Tds(r)) >= 4 /\ Includes(Trim(Tds(r)[4]), Percent)

DescendantWithPercent(r) ==
  \E i \in 1..Len(r.elems) : Includes(r.elems[i].innerText, Percent)

FirstDescendantWithPercent(r) ==
  r.elems[CHOOSE i \in 1..Len(r.elems) :
            /\ Includes(r.elems[i].innerText, Percent)
            /\ \A j \in 1..(i - 1) : ~Includes(r.elems[j].innerText, Percent)]

\* C10 (as stated): apyText is the trimmed 4th cell when that holds a
\* percent sign, else the trimmed text of the first descendant holding one,
\* else the empty string.
C10_FallbackEndsEmpty ==
  /\ Len(raw) = Len(KeptRows(doc))
  /\ \A i \in 1..Len(raw) :
       LET r == KeptRows(doc)[i]
       IN  raw[i].apyText =
             IF CellWithPercent(r) THEN Trim(Tds(r)[4])
             ELSE IF DescendantWithPercent(r)
                  THEN Trim(FirstDescendantWithPercent(r).innerText)
                  ELSE <<>>

\* C10 (amended): apyText is the trimmed 4th cell when that holds a percent
\* sign, else the trimmed text of the first descendant holding one; when
\* neither holds one, apyText is the trimmed text of the 4th cell if the row
\* has at least 4 cells (so it may be non-empty, such as "n/a") and the
\* empty string only if the row has fewer than 4 cells.
C10_FallbackKeepsCell ==
  /\ Len(raw) = Len(KeptRows(doc))
  /\ \A i \in 1..Len(raw) :
       LET r == KeptRows(doc)[i]
       IN  raw[i].apyText =
             IF CellWithPercent(r) THEN Trim(Tds(r)[4])
             ELSE IF DescendantWithPercent(r)
                  THEN Trim(FirstDescendantWithPercent(r).innerText)
                  ELSE IF Len(Tds(r)) >= 4 THEN Trim(Tds(r)[4])
                  ELSE <<>>

C10_Witness ==
  /\ pc = "parse"
  /\ doc = <<RowBadge, RowNoApy, RowShort>>
  /\ raw[1].apyText = <<"1", "2", ".", "5", "%">>
  /\ raw[2].apyText = <<"n", "/", "a">>
  /\ raw[3].apyText = <<>>
\* --------------------------------------------------------------------- C11
\* the first percentage found in a text, as PCT_RE finds it
HasPct(t) == PCT_RE_search(t).ok

FirstPct(t) == ToFloat(SubSeq(t, PCT_RE_search(t).from, PCT_RE_search(t).to))

\* C11: whenever apys has been built from raw, it lists, in the order of the
\* extracted rows, one value for each row that holds a percentage: the first
\* percentage of apyText, or the first of rowText only when apyText has
\* none; rows without any percentage are skipped and leave the order of the
\* others unchanged.
C11_ValuesInDocumentOrder ==
  pc # "parse" =>
    LET valued == {i \in 1..Len(raw) :
                     HasPct(raw[i].apyText) \/ HasPct(raw[i].rowText)}
        rank(i) == Cardinality({j \in valued : j <= i})
    IN  /\ Len(apys) = Cardinality(valued)
        /\ \A i \in valued :
             apys[rank(i)] = IF HasPct(raw[i].apyText)
                             THEN FirstPct(raw[i].apyText)
                             ELSE FirstPct(raw[i].rowText)
        /\ Len(debug) = Len(raw) - Cardinality(valued)

C11_Witness ==
  /\ pc = "check"
  /\ doc = <<RowBadge, RowNoApy, RowLoose>>
  /\ Len(raw) = 3
  /\ apys = <<1250, 700>>
  /\ ~HasPct(raw[3].apyText)
\* --------------------------------------------------------------------- C12
\* the text holds the letters x, s, o, l next to each other, in any case
MentionsLabel(t) ==
  \E p \in 1..(Len(t) - 3) :
    /\ t[p] \in {"x", "X"}
    /\ t[p + 1] \in {"s", "S"}
    /\ t[p + 2] \in {"o", "O"}
    /\ t[p + 3] \in {"l", "L"}

\* C12: the extractor's output has exactly one entry for each row of the
\* document whose text mentions the label in any letter case, in document
\* order, whatever the row's cells hold and whether or not an apyText was
\* found for it; rows that do not mention the label are left out.
C12_EmitsExactlyLabelRows ==
  LET matching == {i \in 1..Len(doc) : MentionsLabel(doc[i].innerText)}
      rank(i) == Cardinality({j \in matching : j <= i})
  IN  /\ Len(raw) = Cardinality(matching)
      /\ \A i \in matching : raw[rank(i)].rowText = Trim(doc[i].innerText)

C12_Witness ==
  /\ pc = "parse"
  /\ doc = <<RowOther, RowShort, RowLoose>>
  /\ Len(raw) = 2
  /\ raw[1].apyText = <<>>
  /\ raw[2].rowText = Trim(RowLoose.innerText)
\* --------------------------------------------------------------------- C13
\* C13: every run terminates; a run that ends without an exception (the
\* navigation succeeded and every browser step returned) ends with exit
\* status 0 in exactly one of: insufficient data (listing printed, no
\* decision), no alert (decision formed, notifier not invoked), alert sent
\* (notifier invoked); a run whose navigation failed ends with a non-zero
\* exit status.
C13_TerminatesInOneOutcome ==
  /\ <>(pc = "done")
  /\ [](pc = "done" <=> exitCode # -1)
  /\ []((pc = "done" /\ error = "none") =>
         /\ returned # "no"
         /\ outcome \in NonFatal
         /\ exitCode = 0
         /\ outcome = "insufficient" <=> ~decision.formed
         /\ outcome = "no_alert" <=> (decision.formed /\ CountOp("send") = 0)
         /\ outcome = "alert_sent" <=> CountOp("send") = 1)
  /\ [](error = "NavigationError" =>
         /\ pc = "done"
         /\ outcome = "fatal"
         /\ exitCode = 1)

C13_Witness ==
  /\ pc = "done"
  /\ error = "none"
  /\ outcome = "no_alert"
  /\ exitCode = 0
  /\ attempt = MAX_ATTEMPTS - 1
\* --------------------------------------------------------------------- C14
\* s is a well-formed percentage token: optional minus sign, digits,
\* optional fraction, optional white space, percent sign
IsToken(s) ==
  \E a \in 0..1, b \in 1..Len(s), c \in 0..Len(s) :
    LET w == Len(s) - 1 - a - b - c
    IN  /\ w >= 0
        /\ a = 1 => s[1] = "-"
        /\ \A k \in (a + 1)..(a + b) : IsDigit(s[k])
        /\ c # 0 => /\ c >= 2
                     /\ s[a + b + 1] = "."
                     /\ \A k \in (a + b + 2)..(a + b + c) : IsDigit(s[k])
        /\ \A k \in (a + b + c + 1)..(a + b + c + w) : IsSpace(s[k])
        /\ s[Len(s)] = "%"

\* the positions of t where a token starts, and the token starting there
TokenStarts(t) ==
  {i \in 1..Len(t) : \E j \in i..Len(t) : IsToken(SubSeq(t, i, j))}

TokenFrom(t, i) ==
  SubSeq(t, i, CHOOSE j \in i..Len(t) : IsToken(SubSeq(t, i, j)))

Digit(c) == CHOOSE n \in 0..9 : <<"0","1","2","3","4","5","6","7","8","9">>[n + 1] = c

RECURSIVE Pow10(_)
Pow10(n) == IF n = 0 THEN 1 ELSE 10 * Pow10(n - 1)

\* the digits ds read as a whole number, most significant digit first
RECURSIVE WholeValue(_)
WholeValue(ds) ==
  IF ds = <<>> THEN 0
  ELSE Digit(Head(ds)) * Pow10(Len(ds) - 1) + WholeValue(Tail(ds))

\* the digits ds read as the fraction places k, k + 1, ..., in units of 1/Scale
RECURSIVE FractionValue(_, _)
FractionValue(ds, k) ==
  IF ds = <<>> THEN 0
  ELSE (Digit(Head(ds)) * Scale) \div Pow10(k) + FractionValue(Tail(ds), k + 1)

\* the number a token denotes, in units of 1/Scale
TokenValue(s) ==
  LET a    == IF s[1] = "-" THEN 1 ELSE 0
      b    == (CHOOSE k \in (a + 1)..(Len(s) + 1) :
                 /\ k > Len(s) \/ ~IsDigit(s[k])
                 /\ \A m \in (a + 1)..(k - 1) : IsDigit(s[m])) - a - 1
      dot  == a + b + 1
      c    == IF s[dot] = "."
              THEN Cardinality({k \in (dot + 1)..Len(s) :
                     \A m \in (dot + 1)..k : IsDigit(s[m])})
              ELSE 0
      int  == WholeValue(SubSeq(s, a + 1, a + b))
      frac == FractionValue(SubSeq(s, dot + 1, dot + c), 1)
  IN  IF a = 1 THEN 0 - (int * Scale + frac) ELSE int * Scale + frac

\* what the claim says the parser yields for t: no match, or the value of
\* the leftmost token
ClaimedSearch(t) ==
  IF TokenStarts(t) = {} THEN [ok |-> FALSE, value |-> 0]
  ELSE LET i == CHOOSE i \in TokenStarts(t) : \A j \in TokenStarts(t) : i <= j
       IN  [ok |-> TRUE, value |-> TokenValue(TokenFrom(t, i))]

ParserYields(t) ==
  IF HasPct(t) THEN [ok |-> TRUE, value |-> FirstPct(t)]
  ELSE [ok |-> FALSE, value |-> 0]

FixedApyText ==
  <<"F","i","x","e","d"," ","A","P","Y",":"," ","4","4",".","8","0","%">>

NoNumberText ==
  <<"n","o"," ","n","u","m","b","e","r"," ","h","e","r","e">>

\* C14: for the cell text shown, the parser reports a match exactly when the
\* text holds a well-formed percentage token and then yields the value of
\* the leftmost one, whatever precedes or follows it; the value parsed for
\* the row is that value; "Fixed APY: 44.80%" gives 44.80, "-3%" gives -3
\* and "no number here" gives no match.
C14_FirstPercentToken ==
  LET t == doc[1].elems[2].innerText
  IN  /\ ParserYields(t) = ClaimedSearch(t)
      /\ ParserYields(raw[1].rowText) = ClaimedSearch(raw[1].rowText)
      /\ pc = "check" =>
           apys = IF ClaimedSearch(t).ok THEN <<ClaimedSearch(t).value>> ELSE <<>>
      /\ ParserYields(FixedApyText) = [ok |-> TRUE, value |-> 4480]
      /\ ParserYields(<<"-", "3", "%">>) = [ok |-> TRUE, value |-> 0 - 300]
      /\ ParserYields(NoNumberText) = [ok |-> FALSE, value |-> 0]

C14_Witness ==
  /\ pc = "check"
  /\ doc[1].elems[2].innerText = <<"4", "%", "8", "%">>
  /\ apys = <<400>>
\* --------------------------------------------------------------------- C15
\* C15: the values list scrape_xsol_apys returns never has exactly one
\* element, so in main "not apys" holds exactly when there are fewer than 2
\* values, and apys[0], apys[1] are never read out of range.
C15_NeverExactlyOneValue ==
  /\ returned # "no" =>
       /\ Len(main_apys) # 1
       /\ NotApys(main_apys) <=> Len(main_apys) < 2
  /\ pc \in {"compare", "send", "sent"} => Len(main_apys) >= 2
  /\ decision.formed => Len(main_apys) >= 2
  /\ error # "IndexError"

C15_Witness ==
  /\ pc = "done"
  /\ returned = "exhausted"
  /\ Len(apys) = 1
  /\ main_apys = <<>>
  /\ Len(diag) = 1

\* --------------------------------------------------------------------- C16
\* C16: the browser is closed at most once, and exactly once when
\* scrape_xsol_apys has returned; nothing is asked of the page or the
\* browser after the close: only the exit of the playwright context and the
\* notification follow it.
C16_CloseOnceAndLast ==
  /\ CountOp("close") <= 1
  /\ returned # "no" => CountOp("close") = 1
  /\ returned = "no" => CountOp("close") = 0
  /\ \A i, j \in 1..Len(ops) :
       (i < j /\ ops[i].op = "close") => ops[j].op \in {"stop", "send"}
  /\ \A i \in 1..Len(ops) :
       ops[i].op = "close" =>
         /\ i > 1
         /\ ops[i - 1].op = "evaluate"
         /\ i < Len(ops)
         /\ ops[i + 1].op = "stop"

C16_Witness ==
  /\ returned = "success"
  /\ pc = "main_check"
  /\ attempt = 2
  /\ ops[Len(ops) - 1].op = "close"
  /\ CountOp("close") = 1

\* --------------------------------------------------------------------- C17
\* C17: send_telegram_message is invoked at most once in a run, never before
\* scrape_xsol_apys has returned and closed the browser, and only when the
\* result holds at least 2 values whose first two differ by THRESHOLD or
\* more; after a failed delivery no second send follows.
C17_NotifyAtMostOnce ==
  /\ CountOp("send") <= 1
  /\ Len(sent) = CountOp("send")
  /\ transport = "none" <=> CountOp("send") = 0
  /\ CountOp("send") = 1 =>
       /\ returned # "no"
       /\ browser = "closed"
       /\ session = "closed"
       /\ ops[Len(ops)].op = "send"
       /\ \E i \in 1..(Len(ops) - 1) : ops[i].op = "close"
       /\ Len(main_apys) >= 2
       /\ \/ main_apys[1] - main_apys[2] >= THRESHOLD * Scale
          \/ main_apys[2] - main_apys[1] >= THRESHOLD * Scale
       /\ pc \in {"sent", "done"}

C17_Witness ==
  /\ pc = "done"
  /\ transport = "Timeout"
  /\ delivered = "None"
  /\ CountOp("send") = 1
  /\ Len(sent) = 1

\* --------------------------------------------------------------------- C18
\* C18: the raw rows scrape_xsol_apys returns are the whole output of the
\* latest extraction: one row per labelled row of the document that
\* extraction saw, parsed and unparsed rows alike; on success the returned
\* values are the values parsed from exactly those rows.
C18_RawRowsComplete ==
  returned # "no" =>
    /\ main_raw = raw
    /\ main_raw = Extract(doc)
    /\ Len(main_raw) = Cardinality({i \in 1..Len(doc) : MentionsLabel(doc[i].innerText)})
    /\ Len(main_raw) = Len(apys) + Len(last_debug)
    /\ ops[Len(PageOps) + 2] = Op("evaluate", CountOp("evaluate") - 1, 0)
    /\ returned = "success" => main_apys = ParseRows(main_raw).apys

C18_Witness ==
  /\ returned = "exhausted"
  /\ Len(main_raw) = 2
  /\ Len(last_debug) = 1
  /\ Len(apys) = 1
  /\ pc = "main_check"
====
